---- MODULE Spec2Model ----
(***************************************************************************)
(* Model of homeassistant/components/homekit/type_heatercoolers.py:        *)
(* the HeaterCooler accessory that synchronises a climate entity with the  *)
(* HomeKit HeaterCooler service.                                           *)
(*                                                                         *)
(* Conventions.                                                            *)
(*  - Python None is the empty tuple <<>>, a present value v is <<v>>.     *)
(*  - Temperatures are integers counting half degrees (21.0 is 42), in     *)
(*    Celsius on the HomeKit side and in `unit` on the climate side.       *)
(*  - Swing mode names are tuples of characters, so that lower() and the   *)
(*    substring test are computed and not looked up.                       *)
(*  - A characteristic is a cell: set_value stores, value/get_value read;  *)
(*    a HomeKit write stores the value and then calls the setter callback. *)
(*    set_value stores the value it is given: what pyhap does with a value  *)
(*    outside valid_values is not part of this source.                     *)
(***************************************************************************)
EXTENDS Integers, Sequences, FiniteSets, TLC

VARIABLES
  pc,                 \* "new" before __init__, "ready" after it, "failed" if it raised
  unit,               \* self._unit: "C" or "F"
  state,              \* the climate entity's state object in hass.states: the
                      \* features and lists, which stay as __init__ read them
  chars,              \* self.chars: optional characteristics of the service
  attrs,              \* instance attributes that __init__ / setters only sometimes create
  char,               \* values of the characteristics (char_* attributes)
  flag,               \* the _flag_* attributes
  hc_homekit_to_hass, \* self.hc_homekit_to_hass
  valid_values,       \* valid_values handed to the target-mode characteristic
  swing_labels,       \* <<self._swing_off, self._swing_on>>, <<>> when not set
  debounce,           \* self.debounce: pending debounced calls
  issued,             \* service calls made by the handler that ran last
  last_op,            \* history: the handler that ran last and what it did
  mode_echo,          \* history: refreshes seen since the last accepted set_heat_cool
  window              \* history: the values written to both thresholds while both
                      \* debounce timers were running

vars == <<pc, unit, state, chars, attrs, char, flag, hc_homekit_to_hass,
          valid_values, swing_labels, debounce, issued, last_op, mode_echo,
          window>>

----------------------------------------------------------------------------
(* Bounds of the model *)

\* longest hvac_modes list tried at construction
MaxModes == 3
\* longest swing_modes list tried at construction
MaxSwing == 2
\* most HomeKit writes to one characteristic inside one debounce window
MaxBurst == 2

----------------------------------------------------------------------------
(* Python helpers *)

None == <<>>
Some(v) == <<v>>

InList(x, seq) == \E i \in 1..Len(seq) : seq[i] = x

\* list.remove(x): drops the first occurrence only
RECURSIVE ListRemove(_, _)
ListRemove(seq, x) ==
  IF seq = <<>> THEN <<>>
  ELSE IF Head(seq) = x THEN Tail(seq)
       ELSE <<Head(seq)>> \o ListRemove(Tail(seq), x)

\* all lists over S of length at most n
ListsUpTo(S, n) == UNION {[1..k -> S] : k \in 0..n}

\* str.lower() on the alphabet the swing names use
LowerChar(c) ==
  CASE c = "O" -> "o"
    [] c = "F" -> "f"
    [] c = "N" -> "n"
    [] c = "S" -> "s"
    [] OTHER -> c

Lower(s) == [i \in 1..Len(s) |-> LowerChar(s[i])]

\* needle in hay
Contains(hay, needle) ==
  \E i \in 1..(Len(hay) - Len(needle) + 1) :
    SubSeq(hay, i, i + Len(needle) - 1) = needle

STR_OFF == <<"o", "f", "f">>

----------------------------------------------------------------------------
(* Constants of the module *)

HVAC_MODE_OFF == "off"
HVAC_MODE_HEAT == "heat"
HVAC_MODE_COOL == "cool"
HVAC_MODE_HEAT_COOL == "heat_cool"
HVAC_MODE_AUTO == "auto"
HVAC_MODE_DRY == "dry"
HVAC_MODE_FAN_ONLY == "fan_only"

SUPPORT_TARGET_TEMPERATURE == "target_temperature"
SUPPORT_TARGET_TEMPERATURE_RANGE == "target_temperature_range"
SUPPORT_FAN_MODE == "fan_mode"
SUPPORT_SWING_MODE == "swing_mode"

CHAR_COOLING_THRESHOLD_TEMPERATURE == "CoolingThresholdTemperature"
CHAR_HEATING_THRESHOLD_TEMPERATURE == "HeatingThresholdTemperature"
CHAR_TEMP_DISPLAY_UNITS == "TemperatureDisplayUnits"
CHAR_ROTATION_SPEED == "RotationSpeed"
CHAR_SWING_MODE == "SwingMode"

\* HC_HASS_TO_HOMEKIT, in the order the dict literal lists its items
HC_HASS_TO_HOMEKIT_ITEMS ==
  << <<HVAC_MODE_HEAT, 1>>, <<HVAC_MODE_COOL, 2>>, <<HVAC_MODE_AUTO, 0>>,
     <<HVAC_MODE_HEAT_COOL, 0>>, <<HVAC_MODE_FAN_ONLY, 2>> >>

HC_HASS_TO_HOMEKIT_KEYS ==
  {HC_HASS_TO_HOMEKIT_ITEMS[i][1] : i \in 1..Len(HC_HASS_TO_HOMEKIT_ITEMS)}

HC_HASS_TO_HOMEKIT(s) ==
  LET i == CHOOSE j \in 1..Len(HC_HASS_TO_HOMEKIT_ITEMS) :
             HC_HASS_TO_HOMEKIT_ITEMS[j][1] = s
  IN  HC_HASS_TO_HOMEKIT_ITEMS[i][2]

HC_HASS_TO_HOMEKIT_ACTION_KEYS == {"off", "idle", "heating", "cooling"}

HC_HASS_TO_HOMEKIT_ACTION(a) ==
  CASE a = "off" -> 0
    [] a = "idle" -> 1
    [] a = "heating" -> 2
    [] a = "cooling" -> 3

UNIT_HASS_TO_HOMEKIT_KEYS == {"C", "F"}

UNIT_HASS_TO_HOMEKIT(u) == IF u = "C" THEN 0 ELSE 1

\* initial values handed to configure_char, in half degrees
INIT_CURRENT_TEMP == 42
INIT_COOLING_THRESH == 46
INIT_HEATING_THRESH == 38
INIT_TARGET_TEMP == 42

\* valid_modes of __init__, in the order of the tuple literal
VALID_MODES == << <<"Auto", 0>>, <<"Cool", 2>>, <<"Heat", 1>> >>

----------------------------------------------------------------------------
(* __init__ *)

IsOffLike_CaseSensitive(a) == Contains(a, STR_OFF)

\* "off" in a.lower()
IsOffLike(a) == Contains(Lower(a), STR_OFF)

\* swing_off = [a for a in swing_modes if "off" in a.lower()]
SwingOff(swing_modes) == SelectSeq(swing_modes, IsOffLike)

\* swing_on = [a for a in swing_modes if a not in swing_off]
SwingOn(swing_modes) ==
  SelectSeq(swing_modes, LAMBDA a : ~InList(a, SwingOff(swing_modes)))

\* len(swing_on) > 0 and len(swing_off) > 0
SwingMappable(swing_modes) ==
  Len(SwingOn(swing_modes)) > 0 /\ Len(SwingOff(swing_modes)) > 0

SingleTemperatureChar_CoolFirst(modes) ==
  IF InList(HVAC_MODE_COOL, modes)
    THEN CHAR_COOLING_THRESHOLD_TEMPERATURE
    ELSE CHAR_HEATING_THRESHOLD_TEMPERATURE

\* the slot a single target temperature is mapped to
SingleTemperatureChar(modes) ==
  IF InList(HVAC_MODE_COOL, modes) /\ InList(HVAC_MODE_HEAT, modes)
    THEN CHAR_HEATING_THRESHOLD_TEMPERATURE
  ELSE IF InList(HVAC_MODE_COOL, modes)
    THEN CHAR_COOLING_THRESHOLD_TEMPERATURE
  ELSE CHAR_HEATING_THRESHOLD_TEMPERATURE

\* self.chars as the successive extend/append calls leave it
BuildChars(features, modes, swing_modes) ==
  <<CHAR_TEMP_DISPLAY_UNITS>>
  \o (IF SUPPORT_TARGET_TEMPERATURE_RANGE \in features
        THEN <<CHAR_COOLING_THRESHOLD_TEMPERATURE, CHAR_HEATING_THRESHOLD_TEMPERATURE>>
      ELSE IF SUPPORT_TARGET_TEMPERATURE \in features
        THEN <<SingleTemperatureChar(modes)>>
      ELSE <<>>)
  \o (IF SUPPORT_FAN_MODE \in features THEN <<CHAR_ROTATION_SPEED>> ELSE <<>>)
  \o (IF SUPPORT_SWING_MODE \in features /\ SwingMappable(swing_modes)
        THEN <<CHAR_SWING_MODE>> ELSE <<>>)

\* usable_modes, after the two conditional remove() calls
UsableModes(modes) ==
  LET u0 == SelectSeq(modes, LAMBDA a : a \in HC_HASS_TO_HOMEKIT_KEYS)
      u1 == IF InList(HVAC_MODE_AUTO, u0) /\ InList(HVAC_MODE_HEAT_COOL, u0)
              THEN ListRemove(u0, HVAC_MODE_HEAT_COOL) ELSE u0
      u2 == IF InList(HVAC_MODE_COOL, u1) /\ InList(HVAC_MODE_FAN_ONLY, u1)
              THEN ListRemove(u1, HVAC_MODE_FAN_ONLY) ELSE u1
  IN  u2

\* {c: s for s, c in HC_HASS_TO_HOMEKIT.items() if s in usable_modes}:
\* a later item of the dict overwrites an earlier one with the same key c
InverseMap(usable_modes) ==
  LET kept == {i \in 1..Len(HC_HASS_TO_HOMEKIT_ITEMS) :
                 InList(HC_HASS_TO_HOMEKIT_ITEMS[i][1], usable_modes)}
      last(c) == CHOOSE i \in kept :
                   /\ HC_HASS_TO_HOMEKIT_ITEMS[i][2] = c
                   /\ \A j \in kept : HC_HASS_TO_HOMEKIT_ITEMS[j][2] = c => j <= i
  IN  [c \in {HC_HASS_TO_HOMEKIT_ITEMS[i][2] : i \in kept} |->
         HC_HASS_TO_HOMEKIT_ITEMS[last(c)][1]]

\* {k: v for k, v in valid_modes if v in self.hc_homekit_to_hass}, as the set of its items
ValidValues(inverse) ==
  {VALID_MODES[i] : i \in {j \in 1..Len(VALID_MODES) : VALID_MODES[j][2] \in DOMAIN inverse}}

NoChars ==
  [active |-> None, target_heat_cool |-> None, current_heat_cool |-> None,
   current_temp |-> None, display_units |-> None, target_temp |-> None,
   cooling_thresh_temp |-> None, heating_thresh_temp |-> None,
   speed |-> None, swing |-> None]

NoFlags ==
  [heat_cool |-> FALSE, temperature |-> FALSE, coolingthresh |-> FALSE,
   heatingthresh |-> FALSE, fan |-> FALSE, swing |-> FALSE]

DebounceNames ==
  {"set_target_temperature", "set_cooling_threshold", "set_heating_threshold",
   "set_fan_mode"}

\* op: the handler; raised: the exception that ended it, "no" if none;
\* run: how many writes in a row, this one included, went to this debounced
\*      characteristic (for an expiry: how many came right before it);
\* suppressed: attributes a refresh had a different value for and did not write;
\* written: attributes whose characteristic a refresh changed
Op(name, raised, run, suppressed) ==
  [op |-> name, raised |-> raised, run |-> run, suppressed |-> suppressed,
   written |-> {}]

NoOp == Op("none", "no", 0, {})

\* __init__ when hvac_modes is missing: list() with three arguments raises
\* TypeError and nothing after line 122 runs
ConstructRaises ==
  /\ state.hvac_modes = None
  /\ pc' = "failed"
  /\ chars' = <<CHAR_TEMP_DISPLAY_UNITS>>
  /\ flag' = NoFlags
  /\ last_op' = Op("__init__", "TypeError", 0, {})
  /\ UNCHANGED <<unit, state, attrs, char, hc_homekit_to_hass, valid_values,
                 swing_labels, debounce, issued, mode_echo, window>>

ConstructCompletes ==
  /\ state.hvac_modes # None
  /\ LET features == state.supported_features
         modes == state.hvac_modes[1]
         swing_modes == state.swing_modes
         range == SUPPORT_TARGET_TEMPERATURE_RANGE \in features
         single == ~range /\ SUPPORT_TARGET_TEMPERATURE \in features
         newchars == BuildChars(features, modes, swing_modes)
         inverse == InverseMap(UsableModes(modes))
     IN  /\ chars' = newchars
         /\ hc_homekit_to_hass' = inverse
         /\ valid_values' = ValidValues(inverse)
         /\ swing_labels' =
              IF InList(CHAR_SWING_MODE, newchars)
                THEN <<SwingOff(swing_modes)[1], SwingOn(swing_modes)[1]>>
                ELSE <<>>
         /\ char' = [NoChars EXCEPT
              !.current_heat_cool = Some(0),
              !.target_heat_cool = Some(0),
              !.active = Some(1),
              !.current_temp = Some(INIT_CURRENT_TEMP),
              !.display_units = Some(0),
              !.cooling_thresh_temp =
                 IF range THEN Some(INIT_COOLING_THRESH) ELSE None,
              !.heating_thresh_temp =
                 IF range THEN Some(INIT_HEATING_THRESH) ELSE None,
              !.target_temp = IF single THEN Some(INIT_TARGET_TEMP) ELSE None,
              !.speed = IF InList(CHAR_ROTATION_SPEED, newchars) THEN Some(0) ELSE None,
              !.swing = IF InList(CHAR_SWING_MODE, newchars) THEN Some(0) ELSE None]
         /\ attrs' =
              (IF InList(CHAR_ROTATION_SPEED, newchars) THEN {"char_speed"} ELSE {})
              \cup (IF InList(CHAR_SWING_MODE, newchars) THEN {"char_swing"} ELSE {})
  /\ flag' = NoFlags
  /\ pc' = "ready"
  /\ last_op' = Op("__init__", "no", 0, {})
  /\ UNCHANGED <<unit, state, debounce, issued, mode_echo, window>>

Construct ==
  /\ pc = "new"
  /\ (ConstructRaises \/ ConstructCompletes)

----------------------------------------------------------------------------
(* util.py: temperature conversion and HomeKitSpeedMapping *)

\* round(a / b) for a >= 0, b > 0
RoundDiv(a, b) == (2 * a + b) \div (2 * b)

\* Celsius (HomeKit) to the climate entity's unit, rounded to half a degree
temperature_to_states(t, u) ==
  IF u = "C" THEN t ELSE RoundDiv(t * 9 + 64 * 5, 5)

\* the climate entity's unit to Celsius (HomeKit), rounded to half a degree
temperature_to_homekit(t, u) ==
  IF u = "C" THEN t ELSE RoundDiv((t - 64) * 5, 9)

\* position of the i-th named speed on the 0..100 scale
SpeedTarget(speed_list, i) == ((i - 1) * 100) \div (Len(speed_list) - 1)

\* named speed to HomeKit value; None for a missing or unknown name
speed_to_homekit(speed_list, speed) ==
  IF speed = None \/ ~InList(speed[1], speed_list) THEN None
  ELSE LET i == CHOOSE j \in 1..Len(speed_list) : speed_list[j] = speed[1]
       IN  Some(SpeedTarget(speed_list, i))

\* HomeKit value to the named speed whose range it falls in
speed_to_states(speed_list, value) ==
  LET n == Len(speed_list)
      starts(i) == (2 * (i - 1) - 1) * 50 <= value * (n - 1)
      i == CHOOSE j \in 1..n : starts(j) /\ \A k \in 1..n : starts(k) => k <= j
  IN  speed_list[i]

----------------------------------------------------------------------------
(* Service calls and bookkeeping *)

SetHvacMode(m) == [service |-> "set_hvac_mode", hvac_mode |-> m]

SetTemperatureRange(low, high) ==
  [service |-> "set_temperature", target_temp_low |-> low, target_temp_high |-> high]

SetTemperature(t) == [service |-> "set_temperature", temperature |-> t]

SetFanMode(speed) == [service |-> "set_fan_mode", fan_mode |-> speed]

SetSwingMode(m) == [service |-> "set_swing_mode", swing_mode |-> m]

\* n: 0 when not tracking, 1 after an accepted set_heat_cool, 2 and 3 after the first
\*    and second refresh that follow it with no write to target mode or Active between;
\* differs: the first refresh reported another mode than the characteristics held;
\* overwrote: the second refresh changed the target-mode characteristic
EchoIdle == [n |-> 0, differs |-> FALSE, overwrote |-> FALSE]

----------------------------------------------------------------------------
(* set_heat_cool and set_active *)

HeatCoolAccepted_IgnoringActive(value, is_active) ==
  value \in DOMAIN hc_homekit_to_hass

\* the conditions under which set_heat_cool reaches its service call
HeatCoolAccepted(value, is_active) ==
  value \in DOMAIN hc_homekit_to_hass /\ is_active # 0

HeatCoolSetsFlag_Always(value, is_active) == TRUE

\* whether set_heat_cool sets _flag_heat_cool
HeatCoolSetsFlag(value, is_active) == HeatCoolAccepted(value, is_active)

\* the service calls of set_heat_cool
HeatCoolCalls(value, is_active) ==
  IF HeatCoolAccepted(value, is_active)
    THEN <<SetHvacMode(hc_homekit_to_hass[value])>>
    ELSE <<>>

\* HomeKit writes the target-mode characteristic
set_heat_cool(value) ==
  /\ pc = "ready"
  /\ LET is_active == char.active[1]
     IN  /\ flag' = IF HeatCoolSetsFlag(value, is_active)
                      THEN [flag EXCEPT !.heat_cool = TRUE] ELSE flag
         /\ issued' = HeatCoolCalls(value, is_active)
         /\ mode_echo' = IF HeatCoolAccepted(value, is_active)
                           THEN [EchoIdle EXCEPT !.n = 1] ELSE EchoIdle
  /\ char' = [char EXCEPT !.target_heat_cool = Some(value)]
  /\ last_op' = Op("set_heat_cool", "no", 0, {})
  /\ UNCHANGED <<pc, unit, state, chars, attrs, hc_homekit_to_hass, valid_values,
                 swing_labels, debounce, window>>

ActiveCalls_ThroughMapping(value, current_hk_mode) ==
  IF value = 0
    THEN IF current_hk_mode \in DOMAIN hc_homekit_to_hass
           THEN <<SetHvacMode(HVAC_MODE_OFF)>> ELSE <<>>
    ELSE HeatCoolCalls(current_hk_mode, value)

ActiveCalls_IgnoringOn(value, current_hk_mode) ==
  IF value = 0 THEN <<SetHvacMode(HVAC_MODE_OFF)>> ELSE <<>>

\* the service calls of set_active
ActiveCalls(value, current_hk_mode) ==
  IF value = 0
    THEN <<SetHvacMode(HVAC_MODE_OFF)>>
    ELSE HeatCoolCalls(current_hk_mode, value)

\* HomeKit writes the Active characteristic; with a value other than 0 it calls
\* set_heat_cool, which reads the Active characteristic just written
set_active(value) ==
  /\ pc = "ready"
  /\ LET current_hk_mode == char.target_heat_cool[1]
     IN  /\ flag' = IF value = 0 \/ HeatCoolSetsFlag(current_hk_mode, value)
                      THEN [flag EXCEPT !.heat_cool = TRUE] ELSE flag
         /\ issued' = ActiveCalls(value, current_hk_mode)
  /\ char' = [char EXCEPT !.active = Some(value)]
  /\ mode_echo' = EchoIdle
  /\ last_op' = Op("set_active", "no", 0, {})
  /\ UNCHANGED <<pc, unit, state, chars, attrs, hc_homekit_to_hass, valid_values,
                 swing_labels, debounce, window>>

----------------------------------------------------------------------------
(* The debounce decorator: a write records its value and (re)starts the    *)
(* timer; the decorated body runs when the timer expires, with the value   *)
(* recorded last.                                                          *)

\* the wrapper: HomeKit writes a debounced characteristic
DebounceWrite(name, value) == debounce' = [debounce EXCEPT ![name] = Some(value)]

\* writes in a row to the characteristic `op` writes, the last handler included
Run(op) == IF last_op.op = op THEN last_op.run ELSE 0

\* both thresholds written while both timers are running
WindowAfterWrite(name, value) ==
  CASE name = "set_cooling_threshold" ->
         IF debounce["set_heating_threshold"] # None
           THEN Some([cool |-> value, heat |-> debounce["set_heating_threshold"][1]])
           ELSE None
    [] name = "set_heating_threshold" ->
         IF debounce["set_cooling_threshold"] # None
           THEN Some([cool |-> debounce["set_cooling_threshold"][1], heat |-> value])
           ELSE None
    [] OTHER -> window

DebouncedWrite(op, name, field, value) ==
  /\ pc = "ready"
  /\ Run(op) < MaxBurst
  /\ DebounceWrite(name, value)
  /\ window' = WindowAfterWrite(name, value)
  /\ char' = [char EXCEPT ![field] = Some(value)]
  /\ issued' = <<>>
  /\ last_op' = Op(op, "no", Run(op) + 1, {})
  /\ UNCHANGED <<pc, unit, state, chars, attrs, flag, hc_homekit_to_hass,
                 valid_values, swing_labels, mode_echo>>

write_cooling_threshold(value) ==
  /\ char.cooling_thresh_temp # None
  /\ DebouncedWrite("write_cooling_threshold", "set_cooling_threshold",
                    "cooling_thresh_temp", value)

write_heating_threshold(value) ==
  /\ char.heating_thresh_temp # None
  /\ DebouncedWrite("write_heating_threshold", "set_heating_threshold",
                    "heating_thresh_temp", value)

write_target_temperature(value) ==
  /\ char.target_temp # None
  /\ DebouncedWrite("write_target_temperature", "set_target_temperature",
                    "target_temp", value)

write_fan_mode(value) ==
  /\ "char_speed" \in attrs
  /\ DebouncedWrite("write_fan_mode", "set_fan_mode", "speed", value)

\* the timer of `name` expires: the decorated body runs
DebounceExpire(op, name) ==
  /\ pc = "ready"
  /\ debounce[name] # None
  /\ debounce' = [debounce EXCEPT ![name] = None]
  /\ last_op' = Op(name, "no", Run(op), {})
  /\ UNCHANGED <<pc, unit, state, chars, char, hc_homekit_to_hass, valid_values,
                 swing_labels, mode_echo, window>>

CoolingThresholdCalls_FromCharacteristic(value) ==
  LET low == char.heating_thresh_temp[1]
  IN  <<SetTemperatureRange(temperature_to_states(low, unit),
                            temperature_to_states(char.cooling_thresh_temp[1], unit))>>

\* the service call of set_cooling_threshold
CoolingThresholdCalls(value) ==
  LET low == char.heating_thresh_temp[1]
  IN  <<SetTemperatureRange(temperature_to_states(low, unit),
                            temperature_to_states(value, unit))>>

\* body of set_cooling_threshold
CoolingThresholdBody(value) ==
  /\ flag' = [flag EXCEPT !.coolingthresh = TRUE]
  /\ issued' = CoolingThresholdCalls(value)
  /\ UNCHANGED attrs

HeatingThresholdCalls_Swapped(value) ==
  LET high == char.cooling_thresh_temp[1]
  IN  <<SetTemperatureRange(temperature_to_states(high, unit),
                            temperature_to_states(value, unit))>>

\* the service call of set_heating_threshold
HeatingThresholdCalls(value) ==
  LET high == char.cooling_thresh_temp[1]
  IN  <<SetTemperatureRange(temperature_to_states(value, unit),
                            temperature_to_states(high, unit))>>

\* body of set_heating_threshold
HeatingThresholdBody(value) ==
  /\ flag' = [flag EXCEPT !.heatingthresh = TRUE]
  /\ issued' = HeatingThresholdCalls(value)
  /\ UNCHANGED attrs

\* body of set_target_temperature
TargetTemperatureBody(value) ==
  /\ flag' = [flag EXCEPT !.temperature = TRUE]
  /\ issued' = <<SetTemperature(temperature_to_states(value, unit))>>
  /\ UNCHANGED attrs

\* body of set_fan_mode
FanModeBody(value) ==
  /\ flag' = [flag EXCEPT !.fan = TRUE]
  /\ attrs' = attrs \cup {"_flag_fan"}
  /\ issued' = <<SetFanMode(speed_to_states(state.fan_modes, value))>>

set_cooling_threshold ==
  /\ DebounceExpire("write_cooling_threshold", "set_cooling_threshold")
  /\ CoolingThresholdBody(debounce["set_cooling_threshold"][1])

set_heating_threshold ==
  /\ DebounceExpire("write_heating_threshold", "set_heating_threshold")
  /\ HeatingThresholdBody(debounce["set_heating_threshold"][1])

set_target_temperature ==
  /\ DebounceExpire("write_target_temperature", "set_target_temperature")
  /\ TargetTemperatureBody(debounce["set_target_temperature"][1])

set_fan_mode ==
  /\ DebounceExpire("write_fan_mode", "set_fan_mode")
  /\ FanModeBody(debounce["set_fan_mode"][1])

\* HomeKit writes the swing characteristic
set_swing_mode(value) ==
  /\ pc = "ready"
  /\ "char_swing" \in attrs
  /\ char' = [char EXCEPT !.swing = Some(value)]
  /\ flag' = [flag EXCEPT !.swing = TRUE]
  /\ attrs' = attrs \cup {"_flag_swing"}
  /\ issued' = <<SetSwingMode(IF value = 1 THEN swing_labels[2] ELSE swing_labels[1])>>
  /\ last_op' = Op("set_swing_mode", "no", 0, {})
  /\ UNCHANGED <<pc, unit, state, chars, hc_homekit_to_hass, valid_values,
                 swing_labels, debounce, mode_echo, window>>

----------------------------------------------------------------------------
(* update_state *)

RefreshTemp_AnyTemperatureFlag(old, reported, pending) ==
  IF reported # None /\ ~(flag.temperature \/ flag.coolingthresh \/ flag.heatingthresh)
    THEN Some(temperature_to_homekit(reported[1], unit))
    ELSE old

\* a temperature attribute refreshed into a characteristic unless its flag is set
RefreshTemp(old, reported, pending) ==
  IF reported # None /\ ~pending
    THEN Some(temperature_to_homekit(reported[1], unit))
    ELSE old

HeatCoolRefresh_IgnoringFlag(c, hvac_mode, pending) ==
  IF hvac_mode \in {HVAC_MODE_OFF, HVAC_MODE_DRY}
    THEN [c EXCEPT !.active = Some(0)]
  ELSE IF hvac_mode \in HC_HASS_TO_HOMEKIT_KEYS
    THEN [c EXCEPT !.active = Some(1),
                   !.target_heat_cool = Some(HC_HASS_TO_HOMEKIT(hvac_mode))]
  ELSE c

\* lines 418-426: Active and target mode from the reported hvac mode
HeatCoolRefresh(c, hvac_mode, pending) ==
  IF hvac_mode \in {HVAC_MODE_OFF, HVAC_MODE_DRY}
    THEN IF ~pending THEN [c EXCEPT !.active = Some(0)] ELSE c
  ELSE IF hvac_mode \in HC_HASS_TO_HOMEKIT_KEYS
    THEN IF ~pending
           THEN [c EXCEPT !.active = Some(1),
                          !.target_heat_cool = Some(HC_HASS_TO_HOMEKIT(hvac_mode))]
           ELSE c
  ELSE c

\* lines 381-427: temperatures, display units and target mode; nothing here raises
UpdateCore(new) ==
  LET c == [char EXCEPT
              !.current_temp =
                 IF new.current_temperature # None
                   THEN Some(temperature_to_homekit(new.current_temperature[1], unit))
                   ELSE @,
              !.target_temp =
                 IF @ # None THEN RefreshTemp(@, new.temperature, flag.temperature)
                 ELSE @,
              !.cooling_thresh_temp =
                 IF @ # None THEN RefreshTemp(@, new.target_temp_high, flag.coolingthresh)
                 ELSE @,
              !.heating_thresh_temp =
                 IF @ # None THEN RefreshTemp(@, new.target_temp_low, flag.heatingthresh)
                 ELSE @,
              !.display_units =
                 IF unit \in UNIT_HASS_TO_HOMEKIT_KEYS
                   THEN Some(UNIT_HASS_TO_HOMEKIT(unit)) ELSE @]
      f == [flag EXCEPT
              !.temperature = IF char.target_temp # None THEN FALSE ELSE @,
              !.coolingthresh = FALSE,
              !.heatingthresh = FALSE,
              !.heat_cool = FALSE]
  IN  [char |-> HeatCoolRefresh(c, new.state, flag.heat_cool), flag |-> f,
       attrs |-> attrs, raised |-> "no"]

\* lines 429-434: the current operation mode
UpdateAction(s, new) ==
  IF s.raised # "no" \/ new.hvac_action = None THEN s
  ELSE IF new.hvac_action[1] \notin HC_HASS_TO_HOMEKIT_ACTION_KEYS
    THEN [s EXCEPT !.raised = "KeyError"]
  ELSE [s EXCEPT !.char.current_heat_cool =
                    Some(HC_HASS_TO_HOMEKIT_ACTION(new.hvac_action[1]))]

\* lines 435-441: the rotation speed
UpdateSpeed(s, new) ==
  IF s.raised # "no" THEN s
  ELSE IF "char_speed" \notin s.attrs THEN [s EXCEPT !.raised = "AttributeError"]
  ELSE LET hk_speed_value == speed_to_homekit(state.fan_modes, new.fan_mode)
       IN  [s EXCEPT
              !.char.speed =
                 IF hk_speed_value # None /\ @ # hk_speed_value
                   THEN hk_speed_value ELSE @,
              !.flag.fan = FALSE,
              !.attrs = @ \cup {"_flag_fan"}]

\* lines 443-449: the swing mode
UpdateSwing(s, new) ==
  IF s.raised # "no" THEN s
  ELSE IF "char_swing" \notin s.attrs THEN [s EXCEPT !.raised = "AttributeError"]
  ELSE IF "_flag_swing" \notin s.attrs THEN [s EXCEPT !.raised = "AttributeError"]
  ELSE IF ~s.flag.swing /\ new.swing_mode = None
    THEN [s EXCEPT !.raised = "AttributeError"]
  ELSE [s EXCEPT
          !.char.swing =
             IF ~s.flag.swing
               THEN Some(IF IsOffLike(new.swing_mode[1]) THEN 0 ELSE 1)
               ELSE @,
          !.flag.swing = FALSE]

\* the statements of update_state in order; an exception ends the handler
\* and keeps what the statements before it did
UpdateResult(new) ==
  UpdateSwing(UpdateSpeed(UpdateAction(UpdateCore(new), new), new), new)

\* what the refresh reports for each flagged attribute, translated to HomeKit;
\* None when the value is missing or has no translation
Translated(new) ==
  LET temp(t) == IF t = None THEN None ELSE Some(temperature_to_homekit(t[1], unit))
  IN  [heat_cool |->
         IF new.state \in {HVAC_MODE_OFF, HVAC_MODE_DRY}
           THEN Some(<<0, char.target_heat_cool[1]>>)
         ELSE IF new.state \in HC_HASS_TO_HOMEKIT_KEYS
           THEN Some(<<1, HC_HASS_TO_HOMEKIT(new.state)>>)
         ELSE None,
       temperature |-> temp(new.temperature),
       coolingthresh |-> temp(new.target_temp_high),
       heatingthresh |-> temp(new.target_temp_low),
       fan |-> speed_to_homekit(state.fan_modes, new.fan_mode),
       swing |-> IF new.swing_mode = None THEN None
                 ELSE Some(IF IsOffLike(new.swing_mode[1]) THEN 0 ELSE 1)]

\* the value each flagged attribute's characteristic holds; None without characteristic
Held(c) ==
  [heat_cool |-> Some(<<c.active[1], c.target_heat_cool[1]>>),
   temperature |-> c.target_temp,
   coolingthresh |-> c.cooling_thresh_temp,
   heatingthresh |-> c.heating_thresh_temp,
   fan |-> c.speed,
   swing |-> c.swing]

FlagNames == DOMAIN NoFlags

\* attributes whose flag was set, for which the refresh had another value than the
\* characteristic held, and whose characteristic the refresh left alone
Suppressed(new, after) ==
  {a \in FlagNames :
     /\ flag[a]
     /\ Held(char)[a] # None
     /\ Translated(new)[a] # None
     /\ Translated(new)[a] # Held(char)[a]
     /\ Held(after)[a] = Held(char)[a]}

\* attributes whose characteristic the refresh changed
Written(after) == {a \in FlagNames : Held(after)[a] # Held(char)[a]}

\* history of refreshes since the last accepted set_heat_cool
EchoAfterRefresh(new, after) ==
  CASE mode_echo.n = 1 ->
         [mode_echo EXCEPT
            !.n = 2,
            !.differs = /\ Translated(new).heat_cool # None
                        /\ Translated(new).heat_cool # Held(char).heat_cool]
    [] mode_echo.n = 2 ->
         [mode_echo EXCEPT
            !.n = 3,
            !.overwrote = after.target_heat_cool # char.target_heat_cool]
    [] OTHER -> EchoIdle

\* the climate entity changes to `new` and the accessory's update_state runs
update_state(new) ==
  /\ pc = "ready"
  /\ \E r \in {UpdateResult(new)} :
         /\ char' = r.char
         /\ flag' = r.flag
         /\ attrs' = r.attrs
         /\ last_op' = [Op("update_state", r.raised, 0, Suppressed(new, r.char))
                          EXCEPT !.written = Written(r.char)]
         /\ mode_echo' = EchoAfterRefresh(new, r.char)
  /\ issued' = <<>>
  /\ UNCHANGED <<pc, unit, state, chars, hc_homekit_to_hass, valid_values,
                 swing_labels, debounce, window>>

----------------------------------------------------------------------------
(* Inputs *)

SW_OFF == <<"o", "f", "f">>
SW_ON == <<"o", "n">>
SW_SWING_OFF == <<"S", "w", "i", "n", "g", "_", "O", "F", "F">>
SW_VERTICAL == <<"v", "e", "r", "t", "i", "c", "a", "l">>

SwingNames == {SW_OFF, SW_ON, SW_SWING_OFF, SW_VERTICAL}

FanModes == <<"low", "high">>

AllFeatures ==
  {SUPPORT_TARGET_TEMPERATURE, SUPPORT_TARGET_TEMPERATURE_RANGE, SUPPORT_FAN_MODE,
   SUPPORT_SWING_MODE}

\* modes a climate entity may list; "off" stands for every mode outside HC_HASS_TO_HOMEKIT
ListedModes ==
  {HVAC_MODE_HEAT, HVAC_MODE_COOL, HVAC_MODE_AUTO, HVAC_MODE_HEAT_COOL,
   HVAC_MODE_FAN_ONLY, HVAC_MODE_OFF}

\* the climate entity as __init__ reads it
Device(features, modes, swing_modes) ==
  [supported_features |-> features, hvac_modes |-> modes, swing_modes |-> swing_modes,
   fan_modes |-> FanModes]

\* values HomeKit writes
WriteModes == 0..2
WriteActives == {0, 1}
WriteTemps == {41, 50}
WriteSpeeds == {30, 100}
WriteSwings == {0, 1}

\* values the climate entity reports, temperatures in its own unit
ReportedCurrentTemp == IF unit = "C" THEN 42 ELSE 140
ReportedTemp == IF unit = "C" THEN 50 ELSE 154
ReportedModes ==
  {HVAC_MODE_OFF, HVAC_MODE_DRY, HVAC_MODE_HEAT, HVAC_MODE_COOL, HVAC_MODE_HEAT_COOL,
   "unavailable"}

\* a refresh with every attribute the entity supports present and translatable
Nominal ==
  LET f == state.supported_features
      opt(feature, v) == IF feature \in f THEN Some(v) ELSE None
  IN  [state |-> HVAC_MODE_HEAT,
       current_temperature |-> Some(ReportedCurrentTemp),
       temperature |-> opt(SUPPORT_TARGET_TEMPERATURE, ReportedTemp),
       target_temp_high |-> opt(SUPPORT_TARGET_TEMPERATURE_RANGE, ReportedTemp),
       target_temp_low |-> opt(SUPPORT_TARGET_TEMPERATURE_RANGE, ReportedTemp),
       hvac_action |-> Some("heating"),
       fan_mode |-> opt(SUPPORT_FAN_MODE, "high"),
       swing_mode |-> opt(SUPPORT_SWING_MODE, SW_ON)]

\* the states the climate entity changes to: the nominal one with one attribute
\* replaced by another value, by one without translation, or missing
Snapshots ==
  {[Nominal EXCEPT !.state = m] : m \in ReportedModes}
  \cup {[Nominal EXCEPT ![a] = None] : a \in DOMAIN Nominal \ {"state"}}
  \cup {[Nominal EXCEPT !.hvac_action = Some("drying")]}
  \cup {[Nominal EXCEPT !.fan_mode = IF @ = None THEN @ ELSE Some("turbo")]}
  \cup {[Nominal EXCEPT !.swing_mode = IF @ = None THEN @ ELSE Some(SW_SWING_OFF)]}

----------------------------------------------------------------------------
(* Specifications *)

\* `setups`: pairs of a climate entity and the temperature unit of the installation
InitWith(setups) ==
  /\ pc = "new"
  /\ \E d \in setups : state = d[1] /\ unit = d[2]
  /\ chars = <<>>
  /\ attrs = {}
  /\ char = NoChars
  /\ flag = NoFlags
  /\ hc_homekit_to_hass = <<>>
  /\ valid_values = {}
  /\ swing_labels = <<>>
  /\ debounce = [n \in DebounceNames |-> None]
  /\ issued = <<>>
  /\ last_op = NoOp
  /\ mode_echo = EchoIdle
  /\ window = None

\* the climate entities the accessory is run against
RunSetups ==
  { \* heating and cooling with a temperature range, Fahrenheit
    <<Device({SUPPORT_TARGET_TEMPERATURE_RANGE},
             Some(<<HVAC_MODE_HEAT, HVAC_MODE_COOL>>), <<>>), "F">>,
    \* cooling only with a single target temperature
    <<Device({SUPPORT_TARGET_TEMPERATURE}, Some(<<HVAC_MODE_COOL>>), <<>>), "C">>,
    \* fan and swing
    <<Device({SUPPORT_FAN_MODE, SUPPORT_SWING_MODE},
             Some(<<HVAC_MODE_AUTO, HVAC_MODE_HEAT_COOL, HVAC_MODE_COOL>>),
             <<SW_OFF, SW_ON>>), "C">>,
    \* swing without fan
    <<Device({SUPPORT_SWING_MODE}, Some(<<HVAC_MODE_HEAT>>),
             <<SW_VERTICAL, SW_SWING_OFF>>), "C">>,
    \* swing modes that cannot be mapped
    <<Device({SUPPORT_SWING_MODE}, Some(<<HVAC_MODE_HEAT>>), <<SW_ON>>), "C">>,
    \* hvac_modes not yet available
    <<Device({}, None, <<>>), "C">> }

Init == InitWith(RunSetups)

WriteTargetHeatCool == \E v \in WriteModes : set_heat_cool(v)
WriteActive == \E v \in WriteActives : set_active(v)
WriteCoolingThreshold == \E v \in WriteTemps : write_cooling_threshold(v)
WriteHeatingThreshold == \E v \in WriteTemps : write_heating_threshold(v)
WriteTargetTemperature == \E v \in WriteTemps : write_target_temperature(v)
WriteRotationSpeed == \E v \in WriteSpeeds : write_fan_mode(v)
WriteSwingMode == \E v \in WriteSwings : set_swing_mode(v)
UpdateState == \E new \in Snapshots : update_state(new)

Next ==
  \/ Construct
  \/ WriteTargetHeatCool
  \/ WriteActive
  \/ WriteCoolingThreshold
  \/ WriteHeatingThreshold
  \/ WriteTargetTemperature
  \/ WriteRotationSpeed
  \/ WriteSwingMode
  \/ set_cooling_threshold
  \/ set_heating_threshold
  \/ set_target_temperature
  \/ set_fan_mode
  \/ UpdateState

Spec == Init /\ [][Next]_vars

\* construction alone, over every mode list and feature set with one swing list,
\* and over every swing list with one mode list
InitSetups ==
  {<<Device(f, m, <<SW_OFF, SW_ON>>), "C">> :
     f \in SUBSET AllFeatures,
     m \in {None} \cup {Some(l) : l \in ListsUpTo(ListedModes, MaxModes)}}
  \cup
  {<<Device(f, Some(<<HVAC_MODE_HEAT>>), sw), "C">> :
     f \in SUBSET AllFeatures, sw \in ListsUpTo(SwingNames, MaxSwing)}

InitNew == InitWith(InitSetups)

NextInit == Construct

SpecInit == InitNew /\ [][NextInit]_vars

----------------------------------------------------------------------------
(* Claims about construction, checked under SpecInit *)

Exposed(c) == InList(c, chars)

Features == state.supported_features

\* the swing names of SwingNames that contain "off" in some capitalisation
OffNames == {SW_OFF, SW_SWING_OFF}

First(S) == CHOOSE i \in S : \A j \in S : i <= j

\* C7: for every available-mode list the inverse map never maps to a subsumed
\* mode (heat_cool beside auto, fan_only beside cool), every entry v -> m has m
\* among the available modes with HC_HASS_TO_HOMEKIT[m] = v, and valid_values
\* holds exactly the values that have an entry.
C7_InverseMapAvoidsSubsumedModes ==
  pc = "ready" =>
    LET modes == state.hvac_modes[1]
        inv == hc_homekit_to_hass
    IN  /\ \A v \in DOMAIN inv :
             InList(inv[v], modes) /\ HC_HASS_TO_HOMEKIT(inv[v]) = v
        /\ InList(HVAC_MODE_AUTO, modes) =>
             \A v \in DOMAIN inv : inv[v] # HVAC_MODE_HEAT_COOL
        /\ InList(HVAC_MODE_COOL, modes) =>
             \A v \in DOMAIN inv : inv[v] # HVAC_MODE_FAN_ONLY
        /\ {item[2] : item \in valid_values} = DOMAIN inv

\* The topology of C8 as __init__ leaves it.
ThresholdTopology ==
  LET cool == Exposed(CHAR_COOLING_THRESHOLD_TEMPERATURE)
      heat == Exposed(CHAR_HEATING_THRESHOLD_TEMPERATURE)
      range == SUPPORT_TARGET_TEMPERATURE_RANGE \in Features
      single == ~range /\ SUPPORT_TARGET_TEMPERATURE \in Features
      listed(m) == state.hvac_modes # None /\ InList(m, state.hvac_modes[1])
  IN  /\ range =>
           /\ cool /\ heat
           /\ char.cooling_thresh_temp # None /\ char.heating_thresh_temp # None
           /\ char.target_temp = None
      /\ single =>
           /\ char.target_temp # None
           /\ char.cooling_thresh_temp = None /\ char.heating_thresh_temp = None
           /\ cool # heat
           /\ cool <=> (listed(HVAC_MODE_COOL) /\ ~listed(HVAC_MODE_HEAT))

\* C8: at construction, with the range feature both thresholds are exposed and
\* no single target temperature exists; with only the single-target feature one
\* threshold slot is exposed, cooling when cool but not heat is available and
\* heating otherwise. Stated of every climate entity, with or without mode list.
C8_ThresholdTopologyAtConstruction ==
  pc # "new" => ThresholdTopology

\* C8 for the climate entities whose accessory is constructed.
C8_ThresholdTopologyWhenConstructed ==
  pc = "ready" => ThresholdTopology

\* C9: without a mode list construction does not abort and the usable modes are
\* those derived from the assumed set heat, cool, heat_cool.
C9_MissingModeListFailsSoft ==
  (pc # "new" /\ state.hvac_modes = None) =>
    /\ pc = "ready"
    /\ hc_homekit_to_hass =
         InverseMap(UsableModes(<<HVAC_MODE_HEAT, HVAC_MODE_COOL, HVAC_MODE_HEAT_COOL>>))

\* The swing characteristic of C10 as __init__ leaves it.
SwingTopology ==
  LET sw == state.swing_modes
      offs == {i \in 1..Len(sw) : sw[i] \in OffNames}
      ons == {i \in 1..Len(sw) : sw[i] \notin OffNames}
  IN  /\ pc = "ready"
      /\ Exposed(CHAR_SWING_MODE) <=> (offs # {} /\ ons # {})
      /\ Exposed(CHAR_SWING_MODE) =>
           swing_labels = <<sw[First(offs)], sw[First(ons)]>>

\* C10: with swing support the swing characteristic is exposed exactly when the
\* swing list has a name containing "off" (any case) and a name without; then
\* the labels are the first of each kind; construction completes either way.
\* Stated of every climate entity, with or without mode list.
C10_SwingExposedIffBothKinds ==
  (pc # "new" /\ SUPPORT_SWING_MODE \in Features) => SwingTopology

\* C10 for the climate entities that list their modes.
C10_SwingExposedWhenModesListed ==
  (pc # "new" /\ SUPPORT_SWING_MODE \in Features /\ state.hvac_modes # None) =>
    SwingTopology

----------------------------------------------------------------------------
(* Claims about writes and refreshes, checked under Spec *)

\* C1: after an accepted set_heat_cool the next update_state leaves target mode
\* and Active as they are, whatever the entity reports, and the update_state
\* after it, with no write between, sets them from the reported mode.
C1_ModeEchoSuppressedForOneRefresh ==
  [][mode_echo.n \in {1, 2} =>
       \A new \in Snapshots :
         update_state(new) =>
           /\ mode_echo.n = 1 =>
                /\ char'.target_heat_cool = char.target_heat_cool
                /\ char'.active = char.active
           /\ (mode_echo.n = 2 /\ new.state \in HC_HASS_TO_HOMEKIT_KEYS) =>
                /\ char'.target_heat_cool = Some(HC_HASS_TO_HOMEKIT(new.state))
                /\ char'.active = Some(1)]_vars

\* An accepted write, a refresh reporting another mode that was suppressed, and
\* a second refresh that changed the target mode.
C1_Witness ==
  mode_echo.n = 3 /\ mode_echo.differs /\ mode_echo.overwrote

\* C2: a refresh that arrives after a write to a debounced temperature
\* characteristic and before the timer expires does not overwrite that
\* characteristic.
C2_RefreshBeforeExpiryKeepsWrittenValue ==
  [][\A new \in Snapshots :
       update_state(new) =>
         /\ debounce["set_target_temperature"] # None =>
              char'.target_temp = char.target_temp
         /\ debounce["set_cooling_threshold"] # None =>
              char'.cooling_thresh_temp = char.cooling_thresh_temp
         /\ debounce["set_heating_threshold"] # None =>
              char'.heating_thresh_temp = char.heating_thresh_temp]_vars

\* C3: set_heat_cool with a value outside the inverse map calls no service,
\* leaves the flags alone and raises nothing; a valid value written to an
\* active accessory, also after an invalid one, sets the flag and calls the
\* service with the mapped mode.
C3_InvalidModeWriteIsDropped ==
  [][\A v \in WriteModes :
       set_heat_cool(v) =>
         /\ v \notin DOMAIN hc_homekit_to_hass =>
              /\ issued' = <<>>
              /\ flag' = flag
              /\ last_op'.raised = "no"
         /\ (v \in DOMAIN hc_homekit_to_hass /\ char.active = Some(1)) =>
              /\ issued' = <<SetHvacMode(hc_homekit_to_hass[v])>>
              /\ flag'.heat_cool]_vars

\* An invalid value was written while another attribute's flag was pending.
C3_Witness ==
  /\ last_op.op = "set_heat_cool"
  /\ char.target_heat_cool[1] \notin DOMAIN hc_homekit_to_hass
  /\ issued = <<>>
  /\ flag.coolingthresh

\* C4: set_active(0) calls set_hvac_mode once, with off, and sets the mode flag,
\* whatever the target-mode characteristic holds and whatever modes are usable.
C4_ActiveOffSendsOff ==
  (last_op.op = "set_active" /\ char.active = Some(0)) =>
    /\ Len(issued) = 1
    /\ issued[1] = SetHvacMode(HVAC_MODE_OFF)
    /\ flag.heat_cool

\* Active was written 0 while target mode held a value without mapping.
C4_Witness ==
  /\ last_op.op = "set_active"
  /\ char.active = Some(0)
  /\ char.target_heat_cool[1] \notin DOMAIN hc_homekit_to_hass

\* C5: writes to the cooling threshold call no service and replace the pending
\* value; the expiry calls set_temperature once, with the value written last as
\* high bound and the heating threshold's current value as low bound, and ends
\* the window; nothing else touches the pending value.
C5_CoolingWritesCoalesce ==
  [][/\ \A v \in WriteTemps :
          write_cooling_threshold(v) =>
            issued' = <<>> /\ debounce'["set_cooling_threshold"] = Some(v)
     /\ set_cooling_threshold =>
          /\ issued' =
               <<SetTemperatureRange(
                   temperature_to_states(char.heating_thresh_temp[1], unit),
                   temperature_to_states(debounce["set_cooling_threshold"][1], unit))>>
          /\ debounce'["set_cooling_threshold"] = None
     /\ debounce'["set_cooling_threshold"] # debounce["set_cooling_threshold"] =>
          last_op'.op \in {"write_cooling_threshold", "set_cooling_threshold"}]_vars

\* The timer expired right after two or more writes to the cooling threshold.
C5_Witness ==
  /\ last_op.op = "set_cooling_threshold"
  /\ last_op.run >= 2
  /\ Len(issued) = 1

\* C6: after every update_state, whatever the snapshot, every flag is false.
C6_RefreshClearsEveryFlag ==
  last_op.op = "update_state" => \A a \in FlagNames : ~flag[a]

\* update_state finds every attribute it reads: the rotation-speed and swing
\* characteristics exist and set_swing_mode has run once
ReadsResolve == {"char_speed", "char_swing", "_flag_swing"} \subseteq attrs

\* C11: a refresh with a fan-speed name outside the speed list, an hvac_action
\* outside HC_HASS_TO_HOMEKIT_ACTION or no swing mode leaves that characteristic
\* as it was, raises nothing, and clears every flag. Stated of accessories on
\* which update_state finds every attribute it reads.
C11_UnmappedValuesAreSkipped ==
  [][ReadsResolve =>
       \A new \in Snapshots :
         update_state(new) =>
           /\ last_op'.raised = "no"
           /\ \A a \in FlagNames : ~flag'[a]
           /\ speed_to_homekit(state.fan_modes, new.fan_mode) = None =>
                char'.speed = char.speed
           /\ (new.hvac_action # None
                 /\ new.hvac_action[1] \notin HC_HASS_TO_HOMEKIT_ACTION_KEYS) =>
                char'.current_heat_cool = char.current_heat_cool
           /\ new.swing_mode = None => char'.swing = char.swing]_vars

\* C12: while the fan flag is set, the next refresh does not write the
\* rotation-speed characteristic, whatever speed the entity reports.
C12_FanFlagSuppressesRefresh ==
  [][flag.fan =>
       \A new \in Snapshots : update_state(new) => char'.speed = char.speed]_vars

\* C13 as stated: set_heat_cool with a value of the inverse map sets the mode flag
\* and calls set_hvac_mode once with the mapped mode, whatever Active holds.
C13_ValidModeWriteAlwaysAccepted ==
  [][\A v \in WriteModes :
       (set_heat_cool(v) /\ v \in DOMAIN hc_homekit_to_hass) =>
         /\ flag'.heat_cool
         /\ issued' = <<SetHvacMode(hc_homekit_to_hass[v])>>]_vars

\* C13 amended: set_heat_cool with a value of the inverse map sets the mode flag
\* and calls set_hvac_mode once with the mapped mode while Active is not 0;
\* while Active is 0 the characteristic takes the value, no service is called
\* and the flags stay as they are.
C13_ValidModeWriteAcceptedWhileActive ==
  [][\A v \in WriteModes :
       (set_heat_cool(v) /\ v \in DOMAIN hc_homekit_to_hass) =>
         /\ char'.target_heat_cool = Some(v)
         /\ char.active # Some(0) =>
              /\ flag'.heat_cool
              /\ issued' = <<SetHvacMode(hc_homekit_to_hass[v])>>
         /\ char.active = Some(0) =>
              /\ flag' = flag
              /\ issued' = <<>>]_vars

\* A value of the inverse map was written while Active was 0 and no flag was set.
C13_Witness ==
  /\ last_op.op = "set_heat_cool"
  /\ char.active = Some(0)
  /\ char.target_heat_cool[1] \in DOMAIN hc_homekit_to_hass
  /\ issued = <<>>
  /\ ~flag.heat_cool

C15_ThresholdCallsCarryBothBounds ==
  [][/\ set_cooling_threshold =>
          issued' =
            <<[service |-> "set_temperature",
               target_temp_low |->
                 temperature_to_states(char.heating_thresh_temp[1], unit),
               target_temp_high |->
                 temperature_to_states(debounce["set_cooling_threshold"][1], unit)]>>
     /\ set_heating_threshold =>
          issued' =
            <<[service |-> "set_temperature",
               target_temp_low |->
                 temperature_to_states(debounce["set_heating_threshold"][1], unit),
               target_temp_high |->
                 temperature_to_states(char.cooling_thresh_temp[1], unit)]>>]_vars

\* The heating threshold was written and its call went out with two different bounds.
C15_Witness ==
  /\ last_op.op = "set_heating_threshold"
  /\ Len(issued) = 1
  /\ DOMAIN issued[1] = {"service", "target_temp_low", "target_temp_high"}
  /\ issued[1].target_temp_low # issued[1].target_temp_high

\* whether update_state, ending with `raised`, ran the statements of attribute a
Reached(a, raised) ==
  CASE a = "fan" -> raised # "KeyError"
    [] a = "swing" -> raised = "no"
    [] OTHER -> TRUE

\* C16: while the flag of one attribute is set, a refresh writes the reported
\* value to the characteristic of every other attribute whose own flag is not
\* set, for each attribute whose statements the refresh runs. In the form: no
\* step that leaves such a characteristic without the reported value is an
\* update_state of that report.
C16_FlagsSuppressOnlyTheirOwnAttribute ==
  [][(last_op'.op = "update_state" /\ \E x \in FlagNames : flag[x]) =>
       \A y \in FlagNames :
         ( /\ ~flag[y]
           /\ \E x \in FlagNames \ {y} : flag[x]
           /\ Held(char)[y] # None
           /\ Reached(y, last_op'.raised) ) =>
         \A new \in Snapshots : \A reported \in {Translated(new)[y]} :
           (reported # None /\ Held(char')[y] # reported) => ~update_state(new)]_vars

\* A refresh kept the written cooling threshold and changed the heating threshold.
C16_Witness ==
  /\ last_op.op = "update_state"
  /\ "coolingthresh" \in last_op.suppressed
  /\ "heatingthresh" \in last_op.written
  /\ ~("coolingthresh" \in last_op.written)

\* the attributes whose characteristic exists
Synchronized == {a \in FlagNames : Held(char)[a] # None}

\* C17: the refresh that follows construction with no write before it puts the
\* reported value into every exposed characteristic, swing included. Stated of
\* accessories that expose the rotation speed, so that update_state reaches the
\* swing statements.
C17_FirstRefreshWritesEverything ==
  [][(last_op.op = "__init__" /\ pc = "ready" /\ "char_speed" \in attrs) =>
       \A new \in Snapshots :
         update_state(new) =>
           \A a \in Synchronized :
             Translated(new)[a] # None => Held(char')[a] = Translated(new)[a]]_vars

\* C18: whichever of rotation speed and swing is exposed, update_state of a
\* state with every supported attribute present and translatable raises nothing
\* and puts the reported value into every exposed characteristic. Stated of
\* accessories on which set_swing_mode has run if they expose swing, so that
\* _flag_swing exists.
C18_RefreshCompletesForEveryCapabilitySet ==
  [][(pc = "ready" /\ ("char_swing" \in attrs => "_flag_swing" \in attrs)
       /\ \A a \in FlagNames : ~flag[a]) =>
       (update_state(Nominal) =>
          /\ last_op'.raised = "no"
          /\ \A a \in Synchronized :
               Translated(Nominal)[a] # None =>
                 Held(char')[a] = Translated(Nominal)[a])]_vars

\* C19: when both thresholds were written while both timers were running, the
\* set_temperature call of the expiry that comes last, refreshes arriving
\* anywhere between, carries the written cooling value as target_temp_high and
\* the written heating value as target_temp_low.
C19_LastCallCarriesBothWrittenValues ==
  ( /\ window # None
    /\ debounce["set_cooling_threshold"] = None
    /\ debounce["set_heating_threshold"] = None
    /\ last_op.op \in {"set_cooling_threshold", "set_heating_threshold"} ) =>
  issued = <<SetTemperatureRange(temperature_to_states(window[1].heat, unit),
                                 temperature_to_states(window[1].cool, unit))>>

\* the target-mode characteristic holds one of the exported valid_values
TargetModeValid == char.target_heat_cool[1] \in {item[2] : item \in valid_values}

\* the reported hvac mode is off or one of the entity's own hvac_modes
OwnMode(new) ==
  new.state = HVAC_MODE_OFF \/ InList(new.state, state.hvac_modes[1])

\* C20: while the entity reports only off or modes of its own list, the
\* target-mode characteristic holds a value of valid_values after every write
\* and refresh, and a refresh reporting off or dry changes nothing but Active,
\* to 0. The first part in the form: no write and no refresh of an own mode
\* takes the characteristic from a value of valid_values to one outside.
C20_TargetModeStaysValid ==
  [][pc = "ready" =>
       /\ (TargetModeValid /\ ~TargetModeValid') =>
            \E new \in Snapshots : ~OwnMode(new) /\ update_state(new)
       /\ ( /\ last_op'.op = "update_state"
            /\ \/ char'.target_heat_cool # char.target_heat_cool
               \/ char'.active \notin {char.active, Some(0)} ) =>
            \A new \in Snapshots :
              new.state \in {HVAC_MODE_OFF, HVAC_MODE_DRY} => ~update_state(new)]_vars

====
